---- MODULE Spec2Model ----
(***************************************************************************)
(* LocalCache (src/src/index.ts): an in-process keyed store with per-key   *)
(* expiration timers.  The store is the Map `data`; every setTimeout the   *)
(* class issues is a record of `timers` until it fires or is cleared.      *)
(* Time is counted in seconds: Tick lets one second pass, a timer whose    *)
(* remaining time is 0 is due and its callback is run by TimerFire.        *)
(***************************************************************************)
EXTENDS Integers, Sequences, FiniteSets, TLC

\* ------------------------------------------------------------------ bounds
MaxTTL == 1
MaxTimers == 2
MaxNum == 2
MaxMembers == 2
MaxLen == 1

Keys == {"a", "b"}
Fields == {"x", "y"}
Nums == {1, 2}
TTLs == 0..MaxTTL
TimerIds == 1..MaxTimers

\* ------------------------------------------------------------------ errors
InvalidKeyType == "invalid type of key-value to use this method!"
OutOfIndex == "out-of array-index"
InvalidKey == "invalid-key"
\* the literal message of the Error that setTTL and persist construct
InvalidKeyLiteral == "Invalid key"
NoError == "none"

\* ------------------------------------------------------------------ values
\* CacheData, one record shape for every variant: `num` is the payload of a
\* number, `entries` the (field, value) pairs of a Map in insertion order,
\* `items` the members of a Set or the elements of an array in order.
Value(type, num, entries, items) ==
    [type |-> type, num |-> num, entries |-> entries, items |-> items]

Num(n) == Value("number", n, <<>>, <<>>)
Str == Value("string", 0, <<>>, <<>>)
MapV(entries) == Value("Map", 0, entries, <<>>)
SetV(items) == Value("Set", 0, <<>>, items)
ArrV(items) == Value("Array", 0, <<>>, items)
Null == Value("null", 0, <<>>, <<>>)

Undefined == 0

VARIABLES
    data,       \* this.data: key -> [ttl, value, timeout]; DOMAIN data = the keys held
    timers,     \* the pending setTimeout callbacks: [id, key, remaining]
    _TTL,       \* this._TTL, the default ttl given to the constructor
    thrown,     \* the message of the Error the most recent call threw, or NoError
    last,       \* history: the most recent step, [op, keys], when it is a watched one
    orphaned,   \* history: ids of the timers that were pending for a key when del(key) ran
    persisted,  \* history: keys persisted and since neither removed nor re-armed
    stored,     \* history: per key held, the ttl argument of the latest call that stored one
    stopped     \* the host has stopped calling the cache

vars == <<data, timers, _TTL, thrown, last, orphaned, persisted, stored, stopped>>

Range(s) == {s[i] : i \in DOMAIN s}

\* Map.prototype.set / delete on this.data
Put(d, key, entry) == [x \in DOMAIN d \cup {key} |-> IF x = key THEN entry ELSE d[x]]
Delete(d, keys) == [x \in DOMAIN d \ keys |-> d[x]]

Entry(ttl, value, timeout) == [ttl |-> ttl, value |-> value, timeout |-> timeout]

\* ------------------------------------------------------------------ timers
\* A timeout handle is an object identity; an identity that is neither pending
\* nor held by an entry can stand for a new handle.
InUse == {t.id : t \in timers} \cup {data[k].timeout : k \in DOMAIN data}
CanArm == \E i \in TimerIds : i \notin InUse
FreshId == CHOOSE i \in TimerIds : i \notin InUse

setTimeout(ts, key, ttl) == ts \cup {[id |-> FreshId, key |-> key, remaining |-> ttl]}
clearTimeout(ts, timeout) == {t \in ts : t.id # timeout}

\* faulty variant: no callback is ever scheduled
handleTTLNever(ts, key, ttl) == [timeout |-> Undefined, timers |-> ts]

\* handleTTL: the handle it returns and the timers pending afterwards
handleTTL(ts, key, ttl) ==
    IF ttl <= 0
    THEN [timeout |-> Undefined, timers |-> ts]
    ELSE [timeout |-> FreshId, timers |-> setTimeout(ts, key, ttl)]

PendingFor(ts, key) == {t \in ts : t.key = key}

\* ------------------------------------------------------------------ queries
get(key) == IF key \in DOMAIN data THEN data[key].value ELSE Null

exists(key) == key \in DOMAIN data

\* faulty variant: the seconds left on the entry's timer instead of the ttl stored
getTTLRemaining(key) ==
    IF key \notin DOMAIN data
    THEN -1
    ELSE IF \E t \in timers : t.id = data[key].timeout
         THEN (CHOOSE t \in timers : t.id = data[key].timeout).remaining
         ELSE data[key].ttl

getTTL(key) == IF key \in DOMAIN data THEN data[key].ttl ELSE -1

isMap(d, key) == key \in DOMAIN d /\ d[key].value.type = "Map"
isSet(d, key) == key \in DOMAIN d /\ d[key].value.type = "Set"
isArray(d, key) == key \in DOMAIN d /\ d[key].value.type = "Array"

\* Object.fromEntries: a later pair of a field overrides an earlier one
fromEntries(entries) ==
    [f \in {entries[i][1] : i \in DOMAIN entries} |->
        LET idx == {i \in DOMAIN entries : entries[i][1] = f}
            top == CHOOSE i \in idx : \A j \in idx : j <= i
        IN entries[top][2]]

\* hGetAll: null, or the object built from the Map's entries
hGetAll(key) ==
    IF ~isMap(data, key)
    THEN [isNull |-> TRUE, obj |-> <<>>]
    ELSE [isNull |-> FALSE, obj |-> fromEntries(data[key].value.entries)]

hLen(key) == IF ~isMap(data, key) THEN 0 ELSE Len(data[key].value.entries)

\* Set.prototype.has
sIsMember(key, member) ==
    IF ~isSet(data, key) THEN FALSE ELSE member \in Range(data[key].value.items)

\* ------------------------------------------------------------------ set / del
Return == thrown' = NoError

Throw(err) ==
    /\ thrown' = err
    /\ UNCHANGED <<data, timers>>

set(key, value, ttl) ==
    LET h == handleTTL(timers, key, ttl) IN
    /\ ttl > 0 => CanArm
    /\ data' = Put(data, key, Entry(ttl, value, h.timeout))
    /\ timers' = h.timers
    /\ Return

del(keys) ==
    /\ data' = Delete(data, keys)
    /\ timers' = timers
    /\ Return

\* ------------------------------------------------------------------ setTTL / persist
setTTL(key, ttl) ==
    IF key \notin DOMAIN data
    THEN Throw(InvalidKeyLiteral)
    ELSE LET h == handleTTL(clearTimeout(timers, data[key].timeout), key, ttl) IN
         /\ ttl > 0 => CanArm
         /\ data' = [data EXCEPT ![key].ttl = ttl, ![key].timeout = h.timeout]
         /\ timers' = h.timers
         /\ Return

persist(key) ==
    IF key \notin DOMAIN data
    THEN Throw(InvalidKeyLiteral)
    ELSE /\ data' = [data EXCEPT ![key].ttl = 0]
         /\ timers' = clearTimeout(timers, data[key].timeout)
         /\ Return

\* ------------------------------------------------------------------ hashmap
\* Map.prototype.set: an existing field keeps its place, a new one is appended
MapSet(entries, field, value) ==
    IF \E i \in DOMAIN entries : entries[i][1] = field
    THEN [i \in DOMAIN entries |->
            IF entries[i][1] = field THEN <<field, value>> ELSE entries[i]]
    ELSE Append(entries, <<field, value>>)

\* faulty variant: the object's fields replace the Map's
hSetFieldsReplace(entries, object) == object

RECURSIVE hSetFields(_, _)
hSetFields(entries, object) ==
    IF object = <<>>
    THEN entries
    ELSE hSetFields(MapSet(entries, Head(object)[1], Head(object)[2]), Tail(object))

hSet(key, object, ttl) ==
    LET reset == ~isMap(data, key)
        h == handleTTL(timers, key, ttl)
        found == IF reset THEN Entry(ttl, MapV(<<>>), h.timeout) ELSE data[key]
    IN
    /\ (reset /\ ttl > 0) => CanArm
    /\ data' = Put(data, key,
                   [found EXCEPT !.value = MapV(hSetFields(found.value.entries, object))])
    /\ timers' = IF reset THEN h.timers ELSE timers
    /\ Return

\* Map.prototype.delete
MapDelete(entries, field) == SelectSeq(entries, LAMBDA e : e[1] # field)

hDel(key, field) ==
    /\ data' = IF isMap(data, key)
               THEN [data EXCEPT ![key].value.entries = MapDelete(@, field)]
               ELSE data
    /\ timers' = timers
    /\ Return

\* ------------------------------------------------------------------ set of members
\* faulty variant: every member is appended, also one the Set holds
SetAddAlways(items, member) == Append(items, member)

\* Set.prototype.add
SetAdd(items, member) ==
    IF member \in Range(items) THEN items ELSE Append(items, member)

RECURSIVE sAddMembers(_, _)
sAddMembers(items, members) ==
    IF members = <<>>
    THEN items
    ELSE sAddMembers(SetAdd(items, Head(members)), Tail(members))

sAdd(key, members) ==
    LET reset == ~isSet(data, key)
        timeout == IF _TTL > 0 THEN FreshId ELSE Undefined
        found == IF reset THEN Entry(_TTL, SetV(<<>>), timeout) ELSE data[key]
    IN
    /\ (reset /\ _TTL > 0) => CanArm
    /\ data' = Put(data, key,
                   [found EXCEPT !.value = SetV(sAddMembers(found.value.items, members))])
    /\ timers' = IF reset /\ _TTL > 0 THEN setTimeout(timers, key, _TTL) ELSE timers
    /\ Return

\* ------------------------------------------------------------------ mSet / incrementBy
\* faulty variant: the store's default ttl instead of 0
mSetEntryDefault(value) == Entry(_TTL, value, Undefined)

mSetEntry(value) == Entry(0, value, Undefined)

mSet(object) ==
    /\ data' = [x \in DOMAIN data \cup DOMAIN object |->
                    IF x \in DOMAIN object THEN mSetEntry(object[x]) ELSE data[x]]
    /\ timers' = timers
    /\ Return

\* faulty variant: a key that holds no number is left alone without an Error
incrementByLenient(key, value) ==
    IF key \notin DOMAIN data \/ data[key].value.type # "number"
    THEN /\ data' = data
         /\ timers' = timers
         /\ Return
    ELSE /\ data[key].value.num + value <= MaxNum
         /\ data' = [data EXCEPT ![key].value.num = @ + value]
         /\ timers' = timers
         /\ Return

incrementBy(key, value) ==
    IF key \notin DOMAIN data \/ data[key].value.type # "number"
    THEN Throw(InvalidKey)
    ELSE /\ data[key].value.num + value <= MaxNum
         /\ data' = [data EXCEPT ![key].value.num = @ + value]
         /\ timers' = timers
         /\ Return

\* ------------------------------------------------------------------ lists
\* An array is its elements, `items`, and the own properties it has beside
\* them, `entries`: pairs (property, value) whose property is an integer that
\* is no position of the array.

\* faulty variant: the values are put in front of the list
pushFront(items, values) == values \o items

\* Array.prototype.push(...values)
push(items, values) == items \o values

\* faulty variant: the first element is removed
popFirst(items) == IF items = <<>> THEN items ELSE Tail(items)

\* Array.prototype.pop
pop(items) == IF items = <<>> THEN items ELSE SubSeq(items, 1, Len(items) - 1)

\* Array.prototype.filter((el) => el !== element)
filter(items, element) == SelectSeq(items, LAMBDA el : el # element)

\* the position, counted from 0, that slice and splice make of a relative index
relativeIndex(items, index) ==
    IF index < 0
    THEN (IF Len(items) + index < 0 THEN 0 ELSE Len(items) + index)
    ELSE (IF index > Len(items) THEN Len(items) ELSE index)

\* Array.prototype.splice(index, 1)
splice(items, index) ==
    LET start == relativeIndex(items, index) IN
    IF start >= Len(items)
    THEN items
    ELSE SubSeq(items, 1, start) \o SubSeq(items, start + 2, Len(items))

\* Array.prototype.slice(start, end)
slice(items, start, end) ==
    SubSeq(items, relativeIndex(items, start) + 1, relativeIndex(items, end))

\* Array.prototype.indexOf
indexOf(items, member) ==
    IF member \in Range(items)
    THEN (CHOOSE i \in DOMAIN items :
             items[i] = member /\ \A j \in DOMAIN items : items[j] = member => i <= j) - 1
    ELSE -1

\* array[index] = value, for index <= length: a position holds the value, the
\* position `length` extends the array, a negative index is an own property
assign(array, index, value) ==
    IF index < 0
    THEN [array EXCEPT !.entries = MapSet(@, index, value)]
    ELSE IF index < Len(array.items)
         THEN [array EXCEPT !.items[index + 1] = value]
         ELSE [array EXCEPT !.items = Append(@, value)]

\* faulty variant: the position `length` passes the bound check
outOfIndexLoose(items, index) == index > Len(items)

\* index > data.value.length - 1
outOfIndex(items, index) == index > Len(items) - 1

\* faulty variant: the default entry, and with it its callback, is made before
\* the key is looked up, and its ttl and handle are put on the entry found
lPushRearm(key, values) ==
    LET h == handleTTL(timers, key, _TTL)
        found == IF key \in DOMAIN data
                 THEN [data[key] EXCEPT !.ttl = _TTL, !.timeout = h.timeout]
                 ELSE Entry(_TTL, ArrV(<<>>), h.timeout)
        list == IF found.value.type = "Array" THEN found.value ELSE ArrV(<<>>)
    IN
    /\ _TTL > 0 => CanArm
    /\ data' = Put(data, key,
                   [found EXCEPT !.value = [list EXCEPT !.items = push(@, values)]])
    /\ timers' = h.timers
    /\ Return

lPush(key, values) ==
    LET h == handleTTL(timers, key, _TTL)
        found == IF key \in DOMAIN data
                 THEN data[key]
                 ELSE Entry(_TTL, ArrV(<<>>), h.timeout)
        list == IF found.value.type = "Array" THEN found.value ELSE ArrV(<<>>)
    IN
    /\ (key \notin DOMAIN data /\ _TTL > 0) => CanArm
    /\ data' = Put(data, key,
                   [found EXCEPT !.value = [list EXCEPT !.items = push(@, values)]])
    /\ timers' = IF key \in DOMAIN data THEN timers ELSE h.timers
    /\ Return

lPop(key) ==
    /\ data' = IF isArray(data, key)
               THEN [data EXCEPT ![key].value.items = pop(@)]
               ELSE data
    /\ timers' = timers
    /\ Return

\* what a call of an accessor gives: the Error it throws or the value it returns
Fail(err) == [error |-> err, isNull |-> TRUE, value |-> 0]
Ok(value) == [error |-> NoError, isNull |-> FALSE, value |-> value]
OkNull == [error |-> NoError, isNull |-> TRUE, value |-> 0]

\* the two checks every list accessor starts with
listError(key) ==
    IF key \notin DOMAIN data
    THEN InvalidKey
    ELSE IF ~isArray(data, key) THEN InvalidKeyType ELSE NoError

lRange(key, start, end) ==
    IF listError(key) # NoError
    THEN Fail(listError(key))
    ELSE Ok(slice(data[key].value.items, start, end))

lPos(key, member) ==
    IF listError(key) # NoError
    THEN Fail(listError(key))
    ELSE Ok(indexOf(data[key].value.items, member))

\* data.value[index] ?? null
lIndex(key, index) ==
    IF listError(key) # NoError
    THEN Fail(listError(key))
    ELSE IF 0 <= index /\ index < Len(data[key].value.items)
         THEN Ok(data[key].value.items[index + 1])
         ELSE IF \E i \in DOMAIN data[key].value.entries :
                    data[key].value.entries[i][1] = index
              THEN Ok(fromEntries(data[key].value.entries)[index])
              ELSE OkNull

\* faulty variant: no list counts as a list of no elements
lLenOrZero(key) == IF ~isArray(data, key) THEN Ok(0) ELSE Ok(Len(data[key].value.items))

lLen(key) ==
    IF listError(key) # NoError
    THEN Fail(listError(key))
    ELSE Ok(Len(data[key].value.items))

\* the call of an accessor: nothing but what it throws is left of it
Call(result) ==
    /\ thrown' = result.error
    /\ UNCHANGED <<data, timers>>

lSet(key, index, value) ==
    IF listError(key) # NoError
    THEN Throw(listError(key))
    ELSE IF outOfIndex(data[key].value.items, index)
         THEN Throw(OutOfIndex)
         ELSE /\ data' = [data EXCEPT ![key].value = assign(@, index, value)]
              /\ timers' = timers
              /\ Return

\* filter gives a new array: the own properties of the old one are not on it
lRem(key, element) ==
    IF listError(key) # NoError
    THEN Throw(listError(key))
    ELSE /\ data' = [data EXCEPT ![key].value = ArrV(filter(@.items, element))]
         /\ timers' = timers
         /\ Return

lRemIndex(key, index) ==
    IF listError(key) # NoError
    THEN Throw(listError(key))
    ELSE IF outOfIndex(data[key].value.items, index)
         THEN Throw(OutOfIndex)
         ELSE /\ data' = [data EXCEPT ![key].value.items = splice(@, index)]
              /\ timers' = timers
              /\ Return

\* the cap on the length of the lists a host builds
PushFits(key, values, max) ==
    Len(IF isArray(data, key) THEN data[key].value.items ELSE <<>>) + Len(values) <= max

\* ------------------------------------------------------------------ scan
\* A string is the sequence of its characters.
LF == "\n"
CR == "\r"
Backslash == "\\"

\* the characters the first replace of scan puts a backslash before
Specials == {".", "*", "+", "?", "^", "$", "{", "}", "(", ")", "|", "[", "]", Backslash}

\* pattern.replace(/([.*+?^${}()|\[\]\\])/g, "\\$1")
RECURSIVE escape(_)
escape(pattern) ==
    IF pattern = <<>>
    THEN <<>>
    ELSE (IF Head(pattern) \in Specials
          THEN <<Backslash, Head(pattern)>>
          ELSE <<Head(pattern)>>) \o escape(Tail(pattern))

\* .replace(/\\\*/g, ".*"): from the left, every backslash followed by a star
RECURSIVE replaceStars(_)
replaceStars(source) ==
    IF source = <<>>
    THEN <<>>
    ELSE IF Len(source) >= 2 /\ source[1] = Backslash /\ source[2] = "*"
         THEN <<".", "*">> \o replaceStars(Tail(Tail(source)))
         ELSE <<Head(source)>> \o replaceStars(Tail(source))

\* new RegExp(source), for the sources scan builds: a backslash and a character
\* match that character, `.*` matches any run of characters that are no line
\* terminators
RECURSIVE regexOf(_)
regexOf(source) ==
    IF source = <<>>
    THEN <<>>
    ELSE IF Len(source) >= 2 /\ source[1] = Backslash
         THEN <<[any |-> FALSE, char |-> source[2]]>> \o regexOf(Tail(Tail(source)))
         ELSE IF Len(source) >= 2 /\ source[1] = "." /\ source[2] = "*"
              THEN <<[any |-> TRUE, char |-> "."]>> \o regexOf(Tail(Tail(source)))
              ELSE <<[any |-> FALSE, char |-> source[1]]>> \o regexOf(Tail(source))

LineTerminators == {LF, CR}

\* regex.test(key) for a regex between ^ and $
RECURSIVE test(_, _)
test(regex, key) ==
    IF regex = <<>>
    THEN key = <<>>
    ELSE IF Head(regex).any
         THEN \/ test(Tail(regex), key)
              \/ /\ key # <<>>
                 /\ Head(key) \notin LineTerminators
                 /\ test(regex, Tail(key))
         ELSE /\ key # <<>>
              /\ Head(key) = Head(regex).char
              /\ test(Tail(regex), Tail(key))

\* scan: the keys of this.data the pattern's regex matches
scan(pattern) ==
    {key \in DOMAIN data : test(regexOf(replaceStars(escape(pattern))), key)}

\* ------------------------------------------------------------------ time
\* one second passes; a due callback runs before more time passes
Tick ==
    /\ timers # {}
    /\ \A t \in timers : t.remaining > 0
    /\ timers' = {[t EXCEPT !.remaining = @ - 1] : t \in timers}
    /\ UNCHANGED <<data, thrown>>

\* the callback of a due timer: this.del(key), or this.data.delete(key) in sAdd's
TimerFire(t) ==
    /\ t \in timers
    /\ t.remaining = 0
    /\ data' = Delete(data, {t.key})
    /\ timers' = timers \ {t}
    /\ UNCHANGED thrown

\* ------------------------------------------------------------------ history
Other == [op |-> "other", keys |-> {}]
Step(op, keys) == [op |-> op, keys |-> keys]

AllOps == {"set", "del", "setTTL", "persist", "hSet", "sAdd", "mSet", "incrementBy",
           "lPush", "tick", "expire"}

Removed == {k \in Keys : k \in DOMAIN data /\ k \notin DOMAIN data'}
Armed == {t.key : t \in {u \in timers' : u.id \notin {w.id : w \in timers}}}

History(op, keys) ==
    /\ persisted' = (persisted \ (Removed \cup Armed))
                        \cup (IF op = "persist" /\ thrown' = NoError THEN keys ELSE {})
    /\ orphaned' = (orphaned \cup (IF op = "del"
                                   THEN {t.id : t \in {u \in timers : u.key \in keys}}
                                   ELSE {}))
                        \cap {t.id : t \in timers'}

\* whether the call `op` stores a ttl for key k: a write that creates the entry
\* of k (set and mSet always, hSet, sAdd and lPush when they find no entry of
\* their variant to extend), setTTL and persist on a key held
StoresFor(op, k) ==
    CASE op \in {"set", "mSet"} -> TRUE
      [] op = "hSet" -> ~isMap(data, k)
      [] op = "sAdd" -> ~isSet(data, k)
      [] op = "lPush" -> k \notin DOMAIN data
      [] op \in {"setTTL", "persist"} -> k \in DOMAIN data
      [] OTHER -> FALSE

\* `ttl` is the ttl the call was given: its argument, the default of an omitted
\* one, 0 for mSet and persist
Stored(op, keys, ttl) ==
    [k \in DOMAIN data' |->
        IF k \in keys /\ StoresFor(op, k) THEN ttl ELSE stored[k]]

\* what a specification records of a step: `watch` the steps it names in `last`,
\* `history` whether it keeps the history of del and persist
Observe(watch, history, op, keys, ttl) ==
    /\ last' = IF op \in watch THEN Step(op, keys) ELSE Other
    /\ IF history THEN History(op, keys) ELSE UNCHANGED <<orphaned, persisted>>
    /\ stored' = Stored(op, keys, ttl)
    /\ UNCHANGED <<_TTL, stopped>>

\* ------------------------------------------------------------------ specification
Init ==
    /\ data = <<>>
    /\ timers = {}
    /\ _TTL \in TTLs
    /\ thrown = NoError
    /\ last = Other
    /\ orphaned = {}
    /\ persisted = {}
    /\ stored = <<>>
    /\ stopped = FALSE

\* the host: its arguments
Host(values, objects, members, pushes) ==
    [values |-> values, objects |-> objects, members |-> members, pushes |-> pushes]

\* the objects a host hands to mSet: key -> value
Mappings(values) == UNION {[ks -> values] : ks \in SUBSET Keys}

\* the calls of a host that draws its arguments from the sets of `host`
KeyspaceCalls(host, watch, history) ==
    \/ \E key \in Keys, value \in host.values, ttl \in TTLs :
          set(key, value, ttl) /\ Observe(watch, history, "set", {key}, ttl)
    \/ \E key \in Keys, value \in host.values :
          set(key, value, _TTL) /\ Observe(watch, history, "set", {key}, _TTL)
    \/ \E keys \in SUBSET Keys :
          del(keys) /\ Observe(watch, history, "del", keys, 0)
    \/ \E key \in Keys, ttl \in TTLs :
          setTTL(key, ttl) /\ Observe(watch, history, "setTTL", {key}, ttl)
    \/ \E key \in Keys :
          persist(key) /\ Observe(watch, history, "persist", {key}, 0)
    \/ \E object \in Mappings(host.values) :
          mSet(object) /\ Observe(watch, history, "mSet", DOMAIN object, 0)

HashCalls(host, watch, history) ==
    \/ \E key \in Keys, object \in host.objects, ttl \in TTLs :
          hSet(key, object, ttl) /\ Observe(watch, history, "hSet", {key}, ttl)
    \/ \E key \in Keys, object \in host.objects :
          hSet(key, object, _TTL) /\ Observe(watch, history, "hSet", {key}, _TTL)

SetCalls(host, watch, history) ==
    \E key \in Keys, mem \in host.members :
        sAdd(key, mem) /\ Observe(watch, history, "sAdd", {key}, _TTL)

NumberCalls(host, watch, history) ==
    \E key \in Keys, value \in {1} :
        incrementBy(key, value) /\ Observe(watch, history, "incrementBy", {key}, 0)

ListCalls(host, watch, history) ==
    \E key \in Keys, vs \in host.pushes :
        /\ PushFits(key, vs, MaxLen)
        /\ lPush(key, vs) /\ Observe(watch, history, "lPush", {key}, _TTL)

\* the event loop: time passes, due callbacks run
Loop(watch, history) ==
    \/ Tick /\ Observe(watch, history, "tick", {}, 0)
    \/ \E t \in timers : TimerFire(t) /\ Observe(watch, history, "expire", {t.key}, 0)

SmallHost == Host({Num(1), Str}, {<< <<"x", 1>> >>}, {<<1>>}, {<<1>>})

\* every call and the event loop, every step watched, with the histories
Next ==
    \/ KeyspaceCalls(SmallHost, AllOps, TRUE)
    \/ HashCalls(SmallHost, AllOps, TRUE)
    \/ SetCalls(SmallHost, AllOps, TRUE)
    \/ NumberCalls(SmallHost, AllOps, TRUE)
    \/ ListCalls(SmallHost, AllOps, TRUE)
    \/ Loop(AllOps, TRUE)

Spec == Init /\ [][Next]_vars

\* the writes that store a ttl and the event loop; the passing of time watched
TinyHost == Host({Num(1)}, {<< <<"x", 1>> >>}, {<<1>>}, {<<1>>})
TTLWatch == {"tick"}

TTLNext ==
    \/ KeyspaceCalls(TinyHost, TTLWatch, FALSE)
    \/ HashCalls(TinyHost, TTLWatch, FALSE)
    \/ SetCalls(TinyHost, TTLWatch, FALSE)
    \/ ListCalls(TinyHost, TTLWatch, FALSE)
    \/ Loop(TTLWatch, FALSE)

TTLSpec == Init /\ [][TTLNext]_vars

\* the keyspace calls and the event loop; mSet watched
MSetHost == Host({Num(1), Str, MapV(<< <<"x", 1>> >>)}, {}, {}, {})
MSetWatch == {"mSet"}

MSetNext ==
    \/ KeyspaceCalls(MSetHost, MSetWatch, FALSE)
    \/ Loop(MSetWatch, FALSE)

MSetSpec == Init /\ [][MSetNext]_vars

\* hSet under the default ttl with objects of no, one and two fields, del, and
\* the event loop; hSet watched
HashHost ==
    Host({},
         {<<>>, << <<"x", 1>> >>, << <<"x", 2>> >>, << <<"y", 1>> >>,
          << <<"x", 2>>, <<"y", 2>> >>},
         {}, {})
HashWatch == {"hSet"}

HashNext ==
    \/ \E key \in Keys, object \in HashHost.objects :
          hSet(key, object, _TTL) /\ Observe(HashWatch, FALSE, "hSet", {key}, _TTL)
    \/ \E keys \in SUBSET Keys :
          del(keys) /\ Observe(HashWatch, FALSE, "del", keys, 0)
    \/ Loop(HashWatch, FALSE)

HashSpec == Init /\ [][HashNext]_vars

\* sAdd with member arrays of up to MaxMembers numbers, mSet and del, and the
\* event loop; sAdd watched
HostMembers == UNION {[1..n -> Nums] : n \in 0..MaxMembers}
SetHost == Host({Num(1)}, {}, HostMembers, {})
SetWatch == {"sAdd"}

SetNext ==
    \/ \E object \in Mappings(SetHost.values) :
          mSet(object) /\ Observe(SetWatch, FALSE, "mSet", DOMAIN object, 0)
    \/ \E keys \in SUBSET Keys :
          del(keys) /\ Observe(SetWatch, FALSE, "del", keys, 0)
    \/ SetCalls(SetHost, SetWatch, FALSE)
    \/ Loop(SetWatch, FALSE)

SetSpec == Init /\ [][SetNext]_vars

\* the keyspace calls until the host stops calling, and the event loop, which
\* lets time pass and runs every due callback; set and the callbacks watched
LiveHost == Host({Num(1)}, {}, {}, {})
LiveWatch == {"set", "expire"}

Stop ==
    /\ ~stopped
    /\ stopped' = TRUE
    /\ UNCHANGED <<data, timers, _TTL, thrown, last, orphaned, persisted, stored>>

LiveNext ==
    \/ ~stopped /\ KeyspaceCalls(LiveHost, LiveWatch, FALSE)
    \/ Stop
    \/ Loop(LiveWatch, FALSE)

LiveSpec == Init /\ [][LiveNext]_vars /\ WF_vars(Loop(LiveWatch, FALSE))

\* the keyspace calls with a number and a string, incrementBy, and the event
\* loop; incrementBy watched
NumHost == Host({Num(1), Str}, {}, {}, {})
NumWatch == {"incrementBy"}

NumNext ==
    \/ KeyspaceCalls(NumHost, NumWatch, FALSE)
    \/ NumberCalls(NumHost, NumWatch, FALSE)
    \/ Loop(NumWatch, FALSE)

NumSpec == Init /\ [][NumNext]_vars

\* the list writes on one key with lists of up to MaxList numbers, mSet and del
\* on every key, and the event loop; the list calls and the callbacks watched
MaxList == 3
ListKeys == {"a"}
Indexes == -1..MaxList
ListPushes == {<<>>, <<1>>, <<2>>, <<1, 2>>}
ListHost == Host({Num(1)}, {}, {}, ListPushes)
ListWatch == {"lPush", "lPop", "lSet", "lRem", "lRemIndex",
              "lRange", "lPos", "lIndex", "lLen", "expire"}

ListWrites(max) ==
    \/ \E key \in ListKeys, vs \in ListHost.pushes :
          /\ PushFits(key, vs, max)
          /\ lPush(key, vs) /\ Observe(ListWatch, FALSE, "lPush", {key}, _TTL)
    \/ \E key \in ListKeys :
          lPop(key) /\ Observe(ListWatch, FALSE, "lPop", {key}, 0)
    \/ \E key \in ListKeys, index \in Indexes, value \in Nums :
          lSet(key, index, value) /\ Observe(ListWatch, FALSE, "lSet", {key}, 0)
    \/ \E key \in ListKeys, element \in Nums :
          lRem(key, element) /\ Observe(ListWatch, FALSE, "lRem", {key}, 0)
    \/ \E key \in ListKeys, index \in Indexes :
          lRemIndex(key, index) /\ Observe(ListWatch, FALSE, "lRemIndex", {key}, 0)

ListReads ==
    \/ \E key \in ListKeys, start \in Indexes, end \in {0, MaxList} :
          Call(lRange(key, start, end)) /\ Observe(ListWatch, FALSE, "lRange", {key}, 0)
    \/ \E key \in ListKeys, member \in Nums :
          Call(lPos(key, member)) /\ Observe(ListWatch, FALSE, "lPos", {key}, 0)
    \/ \E key \in ListKeys, index \in Indexes :
          Call(lIndex(key, index)) /\ Observe(ListWatch, FALSE, "lIndex", {key}, 0)
    \/ \E key \in ListKeys :
          Call(lLen(key)) /\ Observe(ListWatch, FALSE, "lLen", {key}, 0)

ListNext ==
    \/ \E object \in Mappings(ListHost.values) :
          mSet(object) /\ Observe(ListWatch, FALSE, "mSet", DOMAIN object, 0)
    \/ \E keys \in SUBSET Keys :
          del(keys) /\ Observe(ListWatch, FALSE, "del", keys, 0)
    \/ ListWrites(MaxList)
    \/ Loop(ListWatch, FALSE)

ListSpec == Init /\ [][ListNext]_vars

\* every list call on one key with lists of up to MaxLen numbers, mSet and del
\* on every key, and the event loop
ListCallNext ==
    \/ \E object \in Mappings(ListHost.values) :
          mSet(object) /\ Observe(ListWatch, FALSE, "mSet", DOMAIN object, 0)
    \/ \E keys \in SUBSET Keys :
          del(keys) /\ Observe(ListWatch, FALSE, "del", keys, 0)
    \/ ListWrites(MaxLen)
    \/ ListReads
    \/ Loop(ListWatch, FALSE)

ListCallSpec == Init /\ [][ListCallNext]_vars

\* set, del, scan with patterns of up to MaxPattern characters, and the event
\* loop, on keys spelled out as their characters; scan watched
MaxPattern == 2
ScanKeys == {<<"u">>, <<".">>, <<"u", "u">>, <<"u", LF>>}
PatternChars == {"u", ".", "*", Backslash, LF}
Patterns == UNION {[1..n -> PatternChars] : n \in 0..MaxPattern}
ScanWatch == {"scan"}

ScanNext ==
    \/ \E key \in ScanKeys, ttl \in TTLs :
          set(key, Num(1), ttl) /\ Observe(ScanWatch, FALSE, "set", {key}, ttl)
    \/ \E key \in ScanKeys :
          del({key}) /\ Observe(ScanWatch, FALSE, "del", {key}, 0)
    \/ \E pattern \in Patterns :
          Call(Ok(scan(pattern))) /\ Observe(ScanWatch, FALSE, "scan", {}, 0)
    \/ Loop(ScanWatch, FALSE)

ScanSpec == Init /\ [][ScanNext]_vars

\* sAdd and sIsMember with compound members, del, and the event loop.  A
\* compound value (object, array, buffer) is an instance: `ref` is its
\* identity, `shape` what it holds; two instances are one value to === and to
\* a Set exactly when they are one instance.
Instances == {[ref |-> 1, shape |-> "p"], [ref |-> 2, shape |-> "p"], [ref |-> 3, shape |-> "q"]}
InstanceArrays == UNION {[1..n -> Instances] : n \in 1..2}
DeepHost == Host({}, {}, InstanceArrays, {})
DeepWatch == {"sAdd", "sIsMember"}

DeepNext ==
    \/ SetCalls(DeepHost, DeepWatch, FALSE)
    \/ \E key \in Keys, member \in Instances :
          Call(Ok(sIsMember(key, member))) /\ Observe(DeepWatch, FALSE, "sIsMember", {key}, 0)
    \/ \E keys \in SUBSET Keys :
          del(keys) /\ Observe(DeepWatch, FALSE, "del", keys, 0)
    \/ Loop(DeepWatch, FALSE)

DeepSpec == Init /\ [][DeepNext]_vars

\* set with a number, a Map and a list on one key and with a number on the
\* other, the calls that change the value of a key in place on the first, and
\* the event loop; the calls in place watched
FrameHost == Host({Num(1), MapV(<< <<"x", 1>> >>), ArrV(<<>>)},
                  {<< <<"y", 1>> >>}, {<<1>>}, {<<2>>})
InPlaceOps == {"incrementBy", "hSet", "hDel", "sAdd", "lPush", "lPop", "lSet", "lRem",
               "lRemIndex"}

FrameNext ==
    \/ \E key \in ListKeys, value \in FrameHost.values, ttl \in TTLs :
          set(key, value, ttl) /\ Observe(InPlaceOps, FALSE, "set", {key}, ttl)
    \/ \E key \in Keys \ ListKeys, ttl \in TTLs :
          set(key, Num(1), ttl) /\ Observe(InPlaceOps, FALSE, "set", {key}, ttl)
    \/ \E key \in ListKeys :
          incrementBy(key, 1) /\ Observe(InPlaceOps, FALSE, "incrementBy", {key}, 0)
    \/ \E key \in ListKeys, object \in FrameHost.objects, ttl \in TTLs :
          hSet(key, object, ttl) /\ Observe(InPlaceOps, FALSE, "hSet", {key}, ttl)
    \/ \E key \in ListKeys, field \in Fields :
          hDel(key, field) /\ Observe(InPlaceOps, FALSE, "hDel", {key}, 0)
    \/ \E key \in ListKeys, mem \in FrameHost.members :
          sAdd(key, mem) /\ Observe(InPlaceOps, FALSE, "sAdd", {key}, _TTL)
    \/ \E key \in ListKeys, vs \in FrameHost.pushes :
          /\ PushFits(key, vs, MaxLen)
          /\ lPush(key, vs) /\ Observe(InPlaceOps, FALSE, "lPush", {key}, _TTL)
    \/ \E key \in ListKeys :
          lPop(key) /\ Observe(InPlaceOps, FALSE, "lPop", {key}, 0)
    \/ \E key \in ListKeys, index \in {0}, value \in {1} :
          lSet(key, index, value) /\ Observe(InPlaceOps, FALSE, "lSet", {key}, 0)
    \/ \E key \in ListKeys, element \in {1} :
          lRem(key, element) /\ Observe(InPlaceOps, FALSE, "lRem", {key}, 0)
    \/ \E key \in ListKeys, index \in {0} :
          lRemIndex(key, index) /\ Observe(InPlaceOps, FALSE, "lRemIndex", {key}, 0)
    \/ Loop(InPlaceOps, FALSE)

FrameSpec == Init /\ [][FrameNext]_vars

\* ================================================================== claims
\* C1: an expiration callback only ever removes the entry whose write armed it:
\* when a callback removes key k, it is the callback the entry at k holds, never
\* one that was armed for an earlier entry of k.
C1_OnlyOwnCallbackRemoves ==
    [][\A t \in timers :
          (TimerFire(t) /\ t.key \in DOMAIN data) => data[t.key].timeout = t.id]_vars

\* C2: del(k) cancels the pending expiration of k: a callback that was pending
\* for k when del(k) ran never finds, and never removes, an entry of k.
C2_DelCancelsPending ==
    [][\A t \in timers :
          (TimerFire(t) /\ t.id \in orphaned) => t.key \notin DOMAIN data]_vars

\* C3: the number of live expiration callbacks of a key is 1 when the key is
\* present with a stored ttl > 0, and 0 when it is absent or its ttl is <= 0.
C3_OneLiveCallback ==
    \A k \in Keys :
        Cardinality(PendingFor(timers, k)) =
            IF k \in DOMAIN data /\ data[k].ttl > 0 THEN 1 ELSE 0

\* C5: a successful persist(k) leaves getTTL(k) = 0 and the value unchanged,
\* also when k was persisted before, and from then on no expiration callback
\* removes k until del or a write that arms a new callback.
C5_PersistedNeverExpires ==
    [][/\ \A k \in DOMAIN data :
             persist(k) => /\ thrown' = NoError
                           /\ getTTL(k)' = 0
                           /\ get(k)' = get(k)
       /\ \A t \in timers :
             (TimerFire(t) /\ t.key \in persisted) => t.key \in DOMAIN data']_vars

\* C6: setTTL and persist on an absent key throw the InvalidKey error, as
\* incrementBy does, and leave the store and the pending callbacks unchanged.
C6_AbsentKeyInvalidKey ==
    [][\A k \in Keys \ DOMAIN data :
          /\ \A ttl \in TTLs :
                 setTTL(k, ttl) => thrown' = InvalidKey /\ UNCHANGED <<data, timers>>
          /\ persist(k) => thrown' = InvalidKey /\ UNCHANGED <<data, timers>>
          /\ incrementBy(k, 1) => thrown' = InvalidKey /\ UNCHANGED <<data, timers>>]_vars

\* C7: after mSet(object) every key of the object holds the mapped value with
\* getTTL 0, whatever the default ttl and whatever the key held before, and
\* every other key is unchanged.
C7_MSetStoresZeroTTL ==
    [][last'.op = "mSet" =>
          \A object \in [last'.keys -> MSetHost.values] :
              mSet(object) =>
                  /\ \A k \in DOMAIN object : get(k)' = object[k] /\ getTTL(k)' = 0
                  /\ \A k \in Keys \ DOMAIN object :
                        /\ exists(k)' = exists(k)
                        /\ exists(k) => data'[k] = data[k]]_vars

\* mSet({a: ...}) has run under a default ttl > 0, on a key whose earlier entry
\* had armed a callback, and left "b", which has a ttl > 0, alone
C7_Witness ==
    /\ last = Step("mSet", {"a"})
    /\ _TTL > 0
    /\ getTTL("a") = 0
    /\ PendingFor(timers, "a") # {}
    /\ exists("b") /\ getTTL("b") > 0

\* C8: getTTL(k) is -1 when k is absent and otherwise the ttl most recently
\* stored for k by the write that created its entry or by setTTL or persist;
\* time passing and the callbacks of other keys do not change it.
C8_GetTTLIsStoredTTL ==
    \A k \in Keys : getTTL(k) = IF exists(k) THEN stored[k] ELSE -1

\* time has passed on the timer of a present key and getTTL still is the ttl stored
C8_Witness ==
    /\ last = Step("tick", {})
    /\ \E k \in DOMAIN data, t \in timers :
          t.id = data[k].timeout /\ t.key = k /\ t.remaining < getTTL(k)

\* C4: right after set(k, v, ttl) with ttl > 0, exists(k) is true; when the
\* host calls nothing further, the callbacks of k eventually have fired and from
\* then on exists(k) is false, get(k) is null and getTTL(k) is -1.
C4_SetThenExpires ==
    /\ [][\A k \in Keys, value \in LiveHost.values, ttl \in TTLs :
             (ttl > 0 /\ set(k, value, ttl)) => exists(k)']_vars
    /\ \A k \in Keys :
          (stopped /\ last = Step("set", {k}) /\ getTTL(k) > 0)
              ~> [](/\ ~exists(k)
                    /\ get(k) = Null
                    /\ getTTL(k) = -1
                    /\ PendingFor(timers, k) = {})

\* the host has stopped and the callback of "a" has run: "a" is gone
C4_Witness ==
    /\ stopped
    /\ last = Step("expire", {"a"})
    /\ ~exists("a") /\ get("a") = Null /\ getTTL("a") = -1
    /\ timers = {}

\* C9: hSet merges: when k holds a Map, hGetAll(k) after hSet(k, fields) has
\* every field of `fields` with its new value, every other field of the Map
\* with its old value, and no other field.
C9_HSetMerges ==
    [][last'.op = "hSet" =>
          \A k \in last'.keys, object \in HashHost.objects :
              (isMap(data, k) /\ hSet(k, object, _TTL)) =>
                  LET H == hGetAll(k).obj
                      F == fromEntries(object)
                      G == hGetAll(k)'.obj
                  IN /\ ~hGetAll(k)'.isNull
                     /\ DOMAIN G = DOMAIN H \cup DOMAIN F
                     /\ \A f \in DOMAIN G : G[f] = IF f \in DOMAIN F THEN F[f] ELSE H[f]]_vars

\* hSet has added x to a Map that held y, and has overwritten x since
C9_Witness ==
    /\ last = Step("hSet", {"a"})
    /\ isMap(data, "a")
    /\ data["a"].value.entries = << <<"y", 1>>, <<"x", 2>> >>
    /\ hGetAll("a").obj = [x |-> 2, y |-> 1]

NoDuplicates(items) == \A i, j \in DOMAIN items : items[i] = items[j] => i = j

\* C10: sAdd on an absent or non-Set key creates a Set entry whose ttl is the
\* default ttl, with a callback armed when that is > 0; after any sAdd every
\* member given and every member the Set held is a member, each stored once.
C10_SAdd ==
    [][last'.op = "sAdd" =>
          \A k \in last'.keys, mem \in HostMembers :
              sAdd(k, mem) =>
                  /\ isSet(data', k)
                  /\ ~isSet(data, k) =>
                        /\ getTTL(k)' = _TTL
                        /\ IF _TTL > 0
                           THEN \E t \in timers' :
                                   /\ t.id = data'[k].timeout
                                   /\ t.id \notin {u.id : u \in timers}
                                   /\ t.key = k /\ t.remaining = _TTL
                                   /\ timers' = timers \cup {t}
                           ELSE timers' = timers
                  /\ \A m \in Range(mem) : sIsMember(k, m)'
                  /\ \A m \in Nums : sIsMember(k, m) => sIsMember(k, m)'
                  /\ NoDuplicates(data'[k].value.items)]_vars

\* sAdd has created the Set of "a" under a default ttl > 0 and it holds 2 and 1
C10_Witness ==
    /\ last = Step("sAdd", {"a"})
    /\ _TTL > 0
    /\ getTTL("a") = _TTL
    /\ \E t \in timers : t.id = data["a"].timeout /\ t.key = "a"
    /\ sIsMember("a", 1) /\ sIsMember("a", 2)
    /\ Len(data["a"].value.items) = 2

\* the elements of the list at k, none when k holds no list
ListOf(d, k) == IF isArray(d, k) THEN d[k].value.items ELSE <<>>

\* C11: lPush(k, values) on an absent k creates a list entry with the default
\* ttl, on a k that holds no list discards what k held, and in every case
\* leaves at k the list k held before (none counts as empty) followed by
\* `values` in the order given.
C11_LPushAppends ==
    [][last'.op = "lPush" =>
          \A k \in last'.keys, values \in ListPushes :
              lPush(k, values) =>
                  LET prev == ListOf(data, k) IN
                  /\ thrown' = NoError
                  /\ lLen(k)'.error = NoError
                  /\ lLen(k)'.value = Len(prev) + Len(values)
                  /\ \A i \in Indexes :
                        i >= 0 =>
                        lIndex(k, i)' =
                            IF i >= Len(prev) + Len(values)
                            THEN OkNull
                            ELSE IF i < Len(prev)
                                 THEN Ok(prev[i + 1])
                                 ELSE Ok(values[i - Len(prev) + 1])
                  /\ k \notin DOMAIN data => getTTL(k)' = _TTL]_vars

\* lPush has put 1, 2 behind the 2 of a list created under a default ttl > 0
C11_Witness ==
    /\ last = Step("lPush", {"a"})
    /\ _TTL > 0 /\ getTTL("a") = _TTL
    /\ isArray(data, "a")
    /\ lRange("a", 0, MaxList) = Ok(<<2, 1, 2>>)

\* C12: lPop(k) never throws; on an absent k and on a k that holds no list it
\* leaves data and the pending callbacks as they are; on a list it removes the
\* last element and nothing else, and on an empty list it changes nothing.
C12_LPopRemovesLast ==
    [][last'.op = "lPop" =>
          \A k \in last'.keys :
              lPop(k) =>
                  /\ thrown' = NoError
                  /\ timers' = timers
                  /\ IF ~isArray(data, k) \/ ListOf(data, k) = <<>>
                     THEN data' = data
                     ELSE /\ DOMAIN data' = DOMAIN data
                          /\ \A x \in DOMAIN data \ {k} : data'[x] = data[x]
                          /\ data'[k].ttl = data[k].ttl
                          /\ data'[k].timeout = data[k].timeout
                          /\ lLen(k)'.value = lLen(k).value - 1
                          /\ \A i \in 0..(lLen(k).value - 2) : lIndex(k, i)' = lIndex(k, i)]_vars

\* lPop has taken the last of three elements from a list whose callback is pending
C12_Witness ==
    /\ last = Step("lPop", {"a"})
    /\ isArray(data, "a")
    /\ lRange("a", 0, MaxList) = Ok(<<1, 2>>)
    /\ \E t \in timers : t.id = data["a"].timeout /\ t.key = "a"

\* C13: lRange, lPos, lIndex, lLen, lSet, lRem and lRemIndex throw InvalidKey
\* on an absent key, also one that expired or was deleted, and InvalidKeyType
\* on a key that holds no list, and leave the store unchanged in both cases.
C13_ListCallsFail ==
    [][last'.op \in {"lRange", "lPos", "lIndex", "lLen", "lSet", "lRem", "lRemIndex"} =>
          \A k \in last'.keys :
              /\ k \notin DOMAIN data =>
                    thrown' = InvalidKey /\ UNCHANGED <<data, timers>>
              /\ (k \in DOMAIN data /\ data[k].value.type # "Array") =>
                    thrown' = InvalidKeyType /\ UNCHANGED <<data, timers>>]_vars

\* lRemIndex has failed on the number at "a" while "b" is absent
C13_Witness ==
    /\ last = Step("lRemIndex", {"a"})
    /\ thrown = InvalidKeyType
    /\ get("a") = Num(1)
    /\ ~exists("b")

\* C14: on a list of length len, lSet(k, i, v) with i > len - 1 throws
\* OutOfIndex and leaves the list unchanged; with 0 <= i <= len - 1 it
\* succeeds and replaces the element at i, the length and every other element
\* staying as they were.
C14_LSetBounds ==
    [][last'.op = "lSet" =>
          \A k \in last'.keys, i \in Indexes, v \in Nums :
              (isArray(data, k) /\ i >= 0 /\ lSet(k, i, v)) =>
                  IF i > lLen(k).value - 1
                  THEN thrown' = OutOfIndex /\ UNCHANGED <<data, timers>>
                  ELSE /\ thrown' = NoError
                       /\ lLen(k)' = lLen(k)
                       /\ lIndex(k, i)' = Ok(v)
                       /\ \A j \in Indexes \ {i} : lIndex(k, j)' = lIndex(k, j)]_vars

\* lSet has failed on a list of two elements
C14_Witness ==
    /\ last = Step("lSet", {"a"})
    /\ thrown = OutOfIndex
    /\ isArray(data, "a")
    /\ lLen("a") = Ok(2)

\* C18: an lRemIndex(k, index) that does not throw, a negative index included,
\* removes exactly one element: the length goes down by 1, the elements before
\* the removed position stay where they were and those behind it move down by one.
C18_LRemIndexRemovesOne ==
    [][last'.op = "lRemIndex" =>
          \A k \in last'.keys, index \in Indexes :
              (lRemIndex(k, index) /\ thrown' = NoError) =>
                  /\ lLen(k)'.value = lLen(k).value - 1
                  /\ \E p \in 0..(lLen(k).value - 1) :
                        \A i \in 0..(lLen(k).value - 2) :
                            lIndex(k, i)' = IF i < p
                                            THEN lIndex(k, i)
                                            ELSE Ok(ListOf(data, k)[i + 2])]_vars

\* C19: for a list at k, whatever lPush, lPop, lSet, lRem and lRemIndex calls
\* were made, lIndex(k, i) is the element at position i for 0 <= i < lLen(k)
\* and null for every i < 0 and every i >= lLen(k).
C19_LIndexInBounds ==
    \A k \in Keys :
        isArray(data, k) =>
            \A i \in Indexes :
                IF 0 <= i /\ i < lLen(k).value
                THEN lIndex(k, i) = Ok(lRange(k, i, i + 1).value[1])
                ELSE lIndex(k, i) = OkNull

\* C15: incrementBy(k, delta) throws InvalidKey and leaves the store unchanged
\* unless k is present and holds a number; when it succeeds the value is the
\* old value plus delta and the ttl and the pending expiration of k, and every
\* other key, are unchanged.
C15_IncrementBy ==
    [][last'.op = "incrementBy" =>
          \A k \in last'.keys, delta \in {1} :
              incrementBy(k, delta) =>
                  IF ~exists(k) \/ get(k).type # "number"
                  THEN thrown' = InvalidKey /\ UNCHANGED <<data, timers>>
                  ELSE /\ thrown' = NoError
                       /\ get(k)' = Num(get(k).num + delta)
                       /\ getTTL(k)' = getTTL(k)
                       /\ data'[k].timeout = data[k].timeout
                       /\ timers' = timers
                       /\ DOMAIN data' = DOMAIN data
                       /\ \A x \in DOMAIN data \ {k} : data'[x] = data[x]]_vars

\* incrementBy has raised the number at "a", whose callback is pending, while
\* "b" holds a string
C15_Witness ==
    /\ last = Step("incrementBy", {"a"})
    /\ thrown = NoError
    /\ get("a") = Num(2)
    /\ getTTL("a") > 0
    /\ \E t \in timers : t.id = data["a"].timeout /\ t.key = "a"
    /\ get("b") = Str

\* C17: hSet(k, fields, ttl) on a key that is absent or holds no Map never
\* throws and leaves at k a Map of exactly `fields`, with getTTL(k) = ttl and
\* the expiration of k armed from ttl: one callback, due in ttl seconds, when
\* ttl > 0, and none when ttl <= 0.
C17_HSetReplaces ==
    [][last'.op = "hSet" =>
          \A k \in last'.keys, object \in SmallHost.objects, ttl \in TTLs :
              (~isMap(data, k) /\ hSet(k, object, ttl)) =>
                  /\ thrown' = NoError
                  /\ ~hGetAll(k)'.isNull
                  /\ hGetAll(k)'.obj = fromEntries(object)
                  /\ getTTL(k)' = ttl
                  /\ PendingFor(timers', k) =
                        IF ttl > 0
                        THEN {[id |-> data'[k].timeout, key |-> k, remaining |-> ttl]}
                        ELSE {}]_vars

\* the glob of the specification: * matches any run of characters, every other
\* character matches itself
RECURSIVE Glob(_, _)
Glob(pattern, key) ==
    IF pattern = <<>>
    THEN key = <<>>
    ELSE IF Head(pattern) = "*"
         THEN Glob(Tail(pattern), key) \/ (key # <<>> /\ Glob(pattern, Tail(key)))
         ELSE key # <<>> /\ Head(key) = Head(pattern) /\ Glob(Tail(pattern), Tail(key))

\* C16: scan(pattern) is exactly the set of the keys present that match the
\* glob, where * matches any substring and every other character itself: no
\* key that was deleted or has expired, and no present matching key left out.
C16_ScanIsGlob ==
    \A pattern \in Patterns : scan(pattern) = {key \in DOMAIN data : Glob(pattern, key)}

\* structural equality of two compound values
DeepEqual(m, n) == m.shape = n.shape

\* C20: membership in a Set is by deep comparison: sIsMember(k, m) is true
\* whenever a stored member is structurally equal to m, also when m is another
\* instance, and of structurally equal members sAdd stores one.
C20_DeepMembership ==
    \A k \in Keys :
        isSet(data, k) =>
            /\ \A m \in Instances :
                  (\E s \in Range(data[k].value.items) : DeepEqual(s, m)) => sIsMember(k, m)
            /\ \A i, j \in DOMAIN data[k].value.items :
                  DeepEqual(data[k].value.items[i], data[k].value.items[j]) => i = j

\* whether the call `op` finds at k an entry whose value it changes in place
InPlace(op, k) ==
    /\ k \in DOMAIN data
    /\ CASE op = "hSet" -> isMap(data, k)
         [] op = "sAdd" -> isSet(data, k)
         [] OTHER -> TRUE

\* C21: incrementBy, hSet on a Map, hDel, sAdd on a Set, lPush on any present
\* key, lPop, lSet, lRem and lRemIndex on a present key leave the key's ttl
\* and its pending callback as they were, whatever ttl argument or default ttl
\* there is, and leave the entry of every other key unchanged.
C21_InPlaceKeepsTTL ==
    [][last'.op \in InPlaceOps =>
          \A k \in last'.keys :
              InPlace(last'.op, k) =>
                  /\ exists(k)'
                  /\ getTTL(k)' = getTTL(k)
                  /\ data'[k].timeout = data[k].timeout
                  /\ timers' = timers
                  /\ DOMAIN data' = DOMAIN data
                  /\ \A x \in DOMAIN data \ {k} : data'[x] = data[x]]_vars

\* lPush has put a list in the place of a number at "a" under a default ttl of
\* 0: the ttl of "a" still is the one set gave it and its callback is pending,
\* and "b" is held
C21_Witness ==
    /\ last = Step("lPush", {"a"})
    /\ _TTL = 0
    /\ isArray(data, "a") /\ data["a"].value.items = <<2>>
    /\ getTTL("a") > 0
    /\ \E t \in timers : t.id = data["a"].timeout /\ t.key = "a"
    /\ exists("b")

====
